---- MODULE Spec2Model ----
(***************************************************************************)
(* humble-cli: the resumable downloader (src/src/download.rs), the range   *)
(* resolver (src/src/util.rs) and the download orchestrator                *)
(* (src/src/lib.rs, src/src/main.rs), as state machines.                   *)
(***************************************************************************)
EXTENDS Integers, Sequences, FiniteSets, TLC

VARIABLES
    \* ---- the remote server and the destination path (download.rs) ----
    url,          \* the url argument of download_file
    remoteSize,   \* number of bytes of the remote file
    hasLen,       \* whether the server's response carries a content length
    fileExists,   \* Path::new(path).exists()
    file,         \* bytes of the destination file, in order
    \* ---- download_file / _download_file ----
    pc,           \* position of the caller inside download_file
    retries,      \* `retries` of download_file
    res,          \* `res`: the result of the last _download_file attempt
    ret,          \* the value download_file returned
    downloaded,   \* `downloaded` of _download_file
    total_size,   \* `total_size` of _download_file
    rangeFrom,    \* byte offset of the attempt's Range header (-1: none sent)
    pos,          \* number of bytes of the response body the stream is past
    answered,     \* whether the size query of this attempt got a response
    \* ---- history of the run ----
    hist,         \* results of the attempts of the current call, in order
    startLen,     \* length of the file when the current attempt started
    startFile,    \* bytes of the file when the current attempt started
    sleeps,       \* sleeps of the current call
    fetches,      \* ranged requests sent in the current call
    calls,        \* calls of download_file so far
    file0,        \* the file when the current call started
    exists0,      \* whether the file existed when the current call started
    origin,       \* what was at the destination before the first call
    cutAt,        \* file length when an earlier transfer was cut (-1: never)
    \* ---- union_usize_ranges (util.rs) ----
    values,       \* `values`: the tokens, each a sequence of characters
    shapes,       \* the reading of each token the caller has in mind
    max_value,    \* `max_value`
    rpc,          \* "input" before a call, "parsed" / "done" after it
    output,       \* the Result of union_usize_ranges
    \* ---- the download and bulk-download commands (main.rs, lib.rs) ----
    cmd,          \* the subcommand main dispatches on
    argFormats,   \* the --format values as typed
    formats,      \* `formats` of download_bundle / download_bundles
    max_size,     \* `max_size`
    item_numbers, \* `item_numbers`: None or Some(expression)
    torrents_only,\* `torrents_only`
    cur_dir,      \* `cur_dir`
    lines,        \* lines of the bundle list file, in order
    bundle_key,   \* `bundle_key` of download_bundle
    lineIdx,      \* the line the loop of download_bundles is at
    err_vec,      \* `err_vec` of download_bundles
    bundle,       \* `bundle`: what read_bundle returned
    resolved,     \* `item_numbers` after union_usize_ranges
    products,     \* `products`: catalog positions of the filtered products
    opc,          \* position inside download_bundle
    prodIdx,      \* position of the product loop in `products`
    fileIdx,      \* position of the file loops in the product's files
    dirs,         \* directories that exist
    dirs0,        \* directories that existed when download_bundle was called
    inflight,     \* downloads handed to download_file and not yet returned
    dlog,         \* downloads handed to download_file in this call, in order
    written,      \* destination paths download_file has written in this call
    skips,        \* files the format check skipped in this call
    failed,       \* per-file failures of this call: position, file, kind
    bret,         \* what download_bundle returned
    mret,         \* what the command returned
    report,       \* bundle names printed by the error report, in order
    \* ---- the helpers called on their own (util.rs, key_match.rs) ----
    ufn,          \* the helper that is called
    uarg,         \* its string argument: a name, a url, a target key
    ukeys,        \* `keys` of KeyMatch
    uout,         \* what the helper returned
    upc           \* "input" before the call, "done" after it

dlVars == <<url, remoteSize, hasLen, fileExists, file, pc, retries, res, ret,
            downloaded, total_size, rangeFrom, pos, answered, hist, startLen,
            startFile, sleeps, fetches, calls, file0, exists0, origin, cutAt>>
rrVars == <<values, shapes, max_value, rpc, output>>
obVars == <<cmd, argFormats, formats, max_size, item_numbers, torrents_only,
            cur_dir, lines, bundle_key, lineIdx, err_vec, bundle, resolved,
            products,
            opc, prodIdx, fileIdx, dirs, dirs0, inflight, dlog, written,
            skips, failed, bret, mret, report>>
utVars == <<ufn, uarg, ukeys, uout, upc>>
vars == <<dlVars, rrVars, obVars, utVars>>

(***************************************************************************)
(* Bounds of the model.                                                    *)
(***************************************************************************)
MaxSize == 3      \* largest remote file, in bytes
MaxChunk == 2     \* largest chunk the response stream yields
MaxCalls == 2     \* calls of download_file on the same destination
MaxTokens == 3    \* tokens in one call of union_usize_ranges
MaxValue == 2     \* largest max_value
UsizeBits == 3    \* width of usize, scaled down from 64

Min(a, b) == IF a < b THEN a ELSE b

(***************************************************************************)
(* DownloadError and the Result of an attempt.                             *)
(***************************************************************************)
Ok == [kind |-> "Ok", sub |-> "", msg |-> <<>>]
NoRes == [kind |-> "None", sub |-> "", msg |-> <<>>]
Network(sub) == [kind |-> "Network", sub |-> sub, msg |-> <<>>]
IOErr == [kind |-> "IO", sub |-> "", msg |-> <<>>]
Generic(s) == [kind |-> "Generic", sub |-> "", msg |-> s]

\* reqwest::Error kinds as download_file tells them apart
NetKinds == {"connect", "timeout", "other"}

Urls == {"https://dl/a.epub", "https://dl/b.pdf"}

\* the match arm of download_file that retries
RetryNetwork(r) == r.kind = "Network"
IsRetryable(r) == r.kind = "Network" /\ r.sub \in {"connect", "timeout"}

InitialRetriesMore == 3 + 1
InitialRetries == 3

\* the remote file: byte i of it is written i
Remote == [i \in 1..remoteSize |-> i]

\* a file that did not come from this url
Foreign(n) == [i \in 1..n |-> 0]

IsPrefix(s, t) == Len(s) <= Len(t) /\ s = SubSeq(t, 1, Len(s))

(***************************************************************************)
(* open_file_for_write: an existing file is opened for append and its      *)
(* length is the offset; a missing file is created empty.                  *)
(***************************************************************************)
OpenTruncates(exists, f) == [file |-> <<>>, size |-> 0]
OpenOffsetZero(exists, f) == [file |-> IF exists THEN f ELSE <<>>, size |-> 0]
open_file_for_write(exists, f) ==
    IF exists THEN [file |-> f, size |-> Len(f)]
    ELSE [file |-> <<>>, size |-> 0]

\* the body of a response to "Range: bytes=from-"
RangeIgnored(from) == Remote
RangeBody(from) == SubSeq(Remote, from + 1, remoteSize)

\* get_content_length's error
NoLengthMsgPlain(u) == <<"Failed to get content length">>
NoLengthMsg(u) == <<"Failed to get content length from '", u, "'">>

\* the completion short-circuit of _download_file
NothingToDoStrict(d, t) == d > t
NothingToDo(d, t) == d >= t

(***************************************************************************)
(* The range resolver of util.rs.  A token is a sequence of characters.    *)
(* usize is UsizeBits wide: parsing a number that does not fit fails, and  *)
(* arithmetic wraps as in a build without overflow checks.                 *)
(***************************************************************************)
UsizeMax == 2 ^ UsizeBits - 1

Digits == <<"0", "1", "2", "3", "4", "5", "6", "7", "8", "9">>
IsDigit(c) == \E d \in 1..10 : Digits[d] = c
DigitVal(c) == (CHOOSE d \in 1..10 : Digits[d] = c) - 1

\* str::parse::<usize>: -1 stands for Err.  One leading '+' is accepted;
\* an empty string, a lone sign, a non-digit or a value above usize::MAX
\* is an error.
RECURSIVE ParseDigits(_, _)
ParseDigits(s, acc) ==
    IF s = <<>> THEN acc
    ELSE IF ~IsDigit(Head(s)) THEN -1
    ELSE LET next == acc * 10 + DigitVal(Head(s)) IN
         IF next > UsizeMax THEN -1 ELSE ParseDigits(Tail(s), next)

ParseUsize(s) ==
    IF s = <<>> THEN -1
    ELSE IF Head(s) = "+" THEN
         (IF Tail(s) = <<>> THEN -1 ELSE ParseDigits(Tail(s), 0))
    ELSE ParseDigits(s, 0)

\* str::find('-'): index of the first dash, 0 when there is none
FindDash(value) ==
    IF \E i \in 1..Len(value) : value[i] = "-"
    THEN CHOOSE i \in 1..Len(value) :
            value[i] = "-" /\ \A j \in 1..(i - 1) : value[j] # "-"
    ELSE 0

\* range_right + 1 on usize
AddOne(x) == (x + 1) % (2 ^ UsizeBits)

\* (lo..hi).collect(): lo, lo+1, ..., hi-1
Collect(lo, hi) == [i \in 1..(IF hi > lo THEN hi - lo ELSE 0) |-> lo + i - 1]

None == [some |-> FALSE, v |-> <<>>]
Some(v) == [some |-> TRUE, v |-> v]

\* the left bound of a range whose left side is empty
DefaultLeft == 1

\* util.rs:90-123
parse_usize_range(value, maxv) ==
    LET dash_idx == FindDash(value) IN
    IF dash_idx = 0
    THEN (IF ParseUsize(value) = -1 THEN None ELSE Some(<<ParseUsize(value)>>))
    ELSE LET left == SubSeq(value, 1, dash_idx - 1)
             right == SubSeq(value, dash_idx + 1, Len(value))
             range_left == IF left # <<>> THEN ParseUsize(left) ELSE DefaultLeft
             range_right == IF right # <<>> THEN ParseUsize(right) ELSE maxv
         IN  IF range_left = -1 \/ range_right = -1 THEN None
             ELSE Some(Collect(range_left, AddOne(range_right)))

\* invalid_values.push(v)
PushFront(list, v) == <<v>> \o list
Push(list, v) == Append(list, v)

\* format!("'{}'", v) of each invalid value, joined by ", "
RECURSIVE JoinBare(_)
JoinBare(list) ==
    IF list = <<>> THEN <<>>
    ELSE IF Len(list) = 1 THEN list[1]
    ELSE list[1] \o <<",", " ">> \o JoinBare(Tail(list))
RECURSIVE JoinQuoted(_)
JoinQuoted(list) ==
    IF list = <<>> THEN <<>>
    ELSE IF Len(list) = 1 THEN <<"'">> \o list[1] \o <<"'">>
    ELSE <<"'">> \o list[1] \o <<"'">> \o <<",", " ">> \o JoinQuoted(Tail(list))

\* Vec::from_iter(parsed) followed by output.sort()
RECURSIVE SortedVec(_)
SortedVec(set) ==
    IF set = {} THEN <<>>
    ELSE LET m == CHOOSE x \in set : \A y \in set : x <= y
         IN  <<m>> \o SortedVec(set \ {m})

SeqRange(q) == {q[i] : i \in 1..Len(q)}

\* util.rs:129-134  the loop over the tokens from token i on
RECURSIVE UnionLoop(_, _, _, _, _)
UnionLoop(vals, maxv, i, invalid_values, parsed) ==
    IF i > Len(vals) THEN [invalid_values |-> invalid_values, parsed |-> parsed]
    ELSE LET p == parse_usize_range(vals[i], maxv) IN
         IF p.some
         THEN UnionLoop(vals, maxv, i + 1, invalid_values,
                        parsed \cup SeqRange(p.v))
         ELSE UnionLoop(vals, maxv, i + 1, Push(invalid_values, vals[i]),
                        parsed)

ResultOk(v) == [ok |-> TRUE, val |-> v, msg |-> <<>>]
ResultErr(m) == [ok |-> FALSE, val |-> <<>>, msg |-> m]

UnionLenient(vals, maxv) ==
    ResultOk(SortedVec(UnionLoop(vals, maxv, 1, <<>>, {}).parsed))

\* util.rs:125-149
union_usize_ranges(vals, maxv) ==
    LET r == UnionLoop(vals, maxv, 1, <<>>, {}) IN
    IF r.invalid_values # <<>>
    THEN ResultErr(JoinQuoted(r.invalid_values))
    ELSE ResultOk(SortedVec(r.parsed))

\* a Result<(), anyhow::Error>
BOk == [ok |-> TRUE, err |-> "", cause |-> NoRes]
BErr(e, cause) == [ok |-> FALSE, err |-> e, cause |-> cause]
NoBundle == [human_name |-> <<>>, products |-> <<>>]

(***************************************************************************)
(* The state before the download or bulk-download command runs.            *)
(***************************************************************************)
\* the helpers are not called on their own while other code is examined
UtilOff ==
    /\ ufn = "off"
    /\ uarg = <<>>
    /\ ukeys = <<>>
    /\ uout = <<>>
    /\ upc = "off"

BundleOff ==
    /\ cmd = "off"
    /\ argFormats = <<>>
    /\ formats = <<>>
    /\ max_size = 0
    /\ item_numbers = None
    /\ torrents_only = FALSE
    /\ cur_dir = FALSE
    /\ lines = <<>>
    /\ bundle_key = <<>>
    /\ lineIdx = 0
    /\ err_vec = <<>>
    /\ bundle = NoBundle
    /\ resolved = <<>>
    /\ products = <<>>
    /\ opc = "off"
    /\ prodIdx = 0
    /\ fileIdx = 0
    /\ dirs = {}
    /\ dirs0 = {}
    /\ inflight = {}
    /\ dlog = <<>>
    /\ written = {}
    /\ skips = <<>>
    /\ failed = <<>>
    /\ bret = BOk
    /\ mret = BOk
    /\ report = <<>>

(***************************************************************************)
(* The state before download_file is first called.                         *)
(***************************************************************************)
RangeOff ==
    /\ values = <<>>
    /\ shapes = <<>>
    /\ max_value = 0
    /\ rpc = "off"
    /\ output = ResultOk(<<>>)

InitDownload ==
    /\ url \in Urls
    /\ remoteSize \in 0..MaxSize
    /\ hasLen \in BOOLEAN
    /\ origin \in {"absent", "partial", "foreign"}
    /\ fileExists = (origin # "absent")
    /\ file \in CASE origin = "absent" -> {<<>>}
                  [] origin = "partial" ->
                         {SubSeq(Remote, 1, k) : k \in 0..remoteSize}
                  [] OTHER -> {Foreign(n) : n \in 1..(MaxSize + 1)}
    /\ pc = "idle"
    /\ retries = 0
    /\ res = NoRes
    /\ ret = NoRes
    /\ downloaded = 0
    /\ total_size = 0
    /\ rangeFrom = -1
    /\ pos = 0
    /\ answered = FALSE
    /\ hist = <<>>
    /\ startLen = 0
    /\ startFile = <<>>
    /\ sleeps = 0
    /\ fetches = 0
    /\ calls = 0
    /\ file0 = <<>>
    /\ exists0 = FALSE
    /\ cutAt = -1
    /\ RangeOff
    /\ BundleOff
    /\ UtilOff

\* _download_file returns r to the loop of download_file
EndAttempt(r) ==
    /\ res' = r
    /\ hist' = Append(hist, r)
    /\ pc' = "attempt_done"

\* download_file is called (again, after an earlier call returned or the
\* process was terminated)
download_file ==
    /\ pc \in {"idle", "returned"}
    /\ calls < MaxCalls
    /\ pc' = "loop"
    /\ retries' = InitialRetries
    /\ res' = NoRes
    /\ ret' = NoRes
    /\ hist' = <<>>
    /\ sleeps' = 0
    /\ fetches' = 0
    /\ calls' = calls + 1
    /\ file0' = file
    /\ exists0' = fileExists
    /\ cutAt' = IF pc = "returned" /\ ret.kind # "Ok" /\ cutAt = -1
                THEN Len(file) ELSE cutAt
    /\ UNCHANGED <<url, remoteSize, hasLen, fileExists, file, downloaded,
                   total_size, rangeFrom, pos, answered, startLen, startFile,
                   origin>>
    /\ UNCHANGED <<rrVars, obVars, utVars>>

\* download.rs:37,63  the attempt starts: open_file_for_write(path)?
Probe ==
    /\ pc = "loop"
    /\ startLen' = IF fileExists THEN Len(file) ELSE 0
    /\ startFile' = file
    /\ rangeFrom' = -1
    /\ pos' = 0
    /\ total_size' = 0
    /\ answered' = FALSE
    /\ \/ /\ EndAttempt(IOErr)
          /\ UNCHANGED <<fileExists, file, downloaded>>
       \/ LET o == open_file_for_write(fileExists, file) IN
          /\ fileExists' = TRUE
          /\ file' = o.file
          /\ downloaded' = o.size
          /\ pc' = "opened"
          /\ UNCHANGED <<res, hist>>
    /\ UNCHANGED <<url, remoteSize, hasLen, retries, ret, sleeps, fetches,
                   calls, file0, exists0, origin, cutAt>>
    /\ UNCHANGED <<rrVars, obVars, utVars>>

\* download.rs:64,112-117  get_content_length(client, url).await?
get_content_length ==
    /\ pc = "opened"
    /\ \/ /\ \E k \in NetKinds : EndAttempt(Network(k))
          /\ UNCHANGED <<total_size, answered>>
       \/ /\ hasLen
          /\ answered' = TRUE
          /\ total_size' = remoteSize
          /\ pc' = "sized"
          /\ UNCHANGED <<res, hist>>
       \/ /\ ~hasLen
          /\ answered' = TRUE
          /\ EndAttempt(Generic(NoLengthMsg(url)))
          /\ UNCHANGED total_size
    /\ UNCHANGED <<url, remoteSize, hasLen, fileExists, file, retries, ret,
                   downloaded, rangeFrom, pos, startLen, startFile, sleeps,
                   fetches, calls, file0, exists0, origin, cutAt>>
    /\ UNCHANGED <<rrVars, obVars, utVars>>

\* download.rs:66-69  "Nothing to do. File already exists."
ShortCircuit ==
    /\ pc = "sized"
    /\ NothingToDo(downloaded, total_size)
    /\ EndAttempt(Ok)
    /\ UNCHANGED <<answered, url, remoteSize, hasLen, fileExists, file, retries, ret,
                   downloaded, total_size, rangeFrom, pos, startLen,
                   startFile, sleeps, fetches, calls, file0, exists0, origin,
                   cutAt>>
    /\ UNCHANGED <<rrVars, obVars, utVars>>

\* download.rs:72-78  the ranged GET and its response stream
RangedFetch ==
    /\ pc = "sized"
    /\ ~NothingToDo(downloaded, total_size)
    /\ fetches' = fetches + 1
    /\ rangeFrom' = downloaded
    /\ pos' = 0
    /\ \/ \E k \in NetKinds : EndAttempt(Network(k))
       \/ /\ pc' = "streaming"
          /\ UNCHANGED <<res, hist>>
    /\ UNCHANGED <<answered, url, remoteSize, hasLen, fileExists, file, retries, ret,
                   downloaded, total_size, startLen, startFile, sleeps, calls,
                   file0, exists0, origin, cutAt>>
    /\ UNCHANGED <<rrVars, obVars, utVars>>

\* download.rs:83-89  one chunk of the stream is appended to the file
StreamChunk ==
    /\ pc = "streaming"
    /\ pos < Len(RangeBody(rangeFrom))
    /\ \/ \E n \in 1..Min(MaxChunk, Len(RangeBody(rangeFrom)) - pos) :
            /\ file' = file \o SubSeq(RangeBody(rangeFrom), pos + 1, pos + n)
            /\ downloaded' = Min(downloaded + n, total_size)
            /\ pos' = pos + n
            /\ UNCHANGED <<pc, res, hist>>
       \/ /\ EndAttempt(IOErr)
          /\ UNCHANGED <<file, downloaded, pos>>
    /\ UNCHANGED <<answered, url, remoteSize, hasLen, fileExists, retries, ret,
                   total_size, rangeFrom, startLen, startFile, sleeps,
                   fetches, calls, file0, exists0, origin, cutAt>>
    /\ UNCHANGED <<rrVars, obVars, utVars>>

\* download.rs:84  `let chunk = chunk?;` on a transport failure
StreamError ==
    /\ pc = "streaming"
    /\ pos < Len(RangeBody(rangeFrom))
    /\ \E k \in NetKinds : EndAttempt(Network(k))
    /\ UNCHANGED <<answered, url, remoteSize, hasLen, fileExists, file, retries, ret,
                   downloaded, total_size, rangeFrom, pos, startLen,
                   startFile, sleeps, fetches, calls, file0, exists0, origin,
                   cutAt>>
    /\ UNCHANGED <<rrVars, obVars, utVars>>

\* download.rs:83,91-93  the stream yields None
StreamEnd ==
    /\ pc = "streaming"
    /\ pos = Len(RangeBody(rangeFrom))
    /\ EndAttempt(Ok)
    /\ UNCHANGED <<answered, url, remoteSize, hasLen, fileExists, file, retries, ret,
                   downloaded, total_size, rangeFrom, pos, startLen,
                   startFile, sleeps, fetches, calls, file0, exists0, origin,
                   cutAt>>
    /\ UNCHANGED <<rrVars, obVars, utVars>>

\* download.rs:39-53  the retry decision of download_file
AfterAttempt ==
    /\ pc = "attempt_done"
    /\ retries' = retries - 1
    /\ IF retries' < 0
       THEN /\ pc' = "returned"
            /\ ret' = res
            /\ UNCHANGED sleeps
       ELSE IF IsRetryable(res)
            THEN /\ pc' = "sleeping"
                 /\ sleeps' = sleeps + 1
                 /\ UNCHANGED ret
            ELSE /\ pc' = "returned"
                 /\ ret' = res
                 /\ UNCHANGED sleeps
    /\ UNCHANGED <<answered, url, remoteSize, hasLen, fileExists, file, res,
                   downloaded, total_size, rangeFrom, pos, hist, startLen,
                   startFile, fetches, calls, file0, exists0, origin, cutAt>>
    /\ UNCHANGED <<rrVars, obVars, utVars>>

\* download.rs:49-50  the sleep is over: continue
WakeUp ==
    /\ pc = "sleeping"
    /\ pc' = "loop"
    /\ UNCHANGED <<answered, url, remoteSize, hasLen, fileExists, file, retries, res,
                   ret, downloaded, total_size, rangeFrom, pos, hist,
                   startLen, startFile, sleeps, fetches, calls, file0,
                   exists0, origin, cutAt>>
    /\ UNCHANGED <<rrVars, obVars, utVars>>

\* the process is terminated in the middle of a transfer; what was written
\* stays on disk
Kill ==
    /\ pc = "streaming"
    /\ calls < MaxCalls
    /\ pc' = "idle"
    /\ cutAt' = IF cutAt = -1 THEN Len(file) ELSE cutAt
    /\ UNCHANGED <<answered, url, remoteSize, hasLen, fileExists, file, retries, res,
                   ret, downloaded, total_size, rangeFrom, pos, hist,
                   startLen, startFile, sleeps, fetches, calls, file0,
                   exists0, origin>>
    /\ UNCHANGED <<rrVars, obVars, utVars>>

Next ==
    \/ download_file
    \/ Probe
    \/ get_content_length
    \/ ShortCircuit
    \/ RangedFetch
    \/ StreamChunk
    \/ StreamError
    \/ StreamEnd
    \/ AfterAttempt
    \/ WakeUp
    \/ Kill

Spec == InitDownload /\ [][Next]_vars

\* download.rs:72-78 and 83: the status of the response is not examined and
\* its body may be shorter than the bytes asked for (an error page, a file
\* that changed since its length was read); the stream then yields None
\* before the rest of the file was received
StreamEndsShort ==
    /\ pc = "streaming"
    /\ pos < Len(RangeBody(rangeFrom))
    /\ EndAttempt(Ok)
    /\ UNCHANGED <<answered, url, remoteSize, hasLen, fileExists, file,
                   retries, ret, downloaded, total_size, rangeFrom, pos,
                   startLen, startFile, sleeps, fetches, calls, file0,
                   exists0, origin, cutAt>>
    /\ UNCHANGED <<rrVars, obVars, utVars>>

\* the downloader with a server whose response may end early
NextShortBody ==
    \/ Next
    \/ StreamEndsShort

SpecShortBody == InitDownload /\ [][NextShortBody]_vars

(***************************************************************************)
(* The inputs of the range resolver.  A shape is the reading of a token:   *)
(* a bare integer a, a range whose bounds a and b may be left out (-1), or *)
(* text that is neither.                                                   *)
(***************************************************************************)
RECURSIVE Fmt(_)
Fmt(n) == IF n < 10 THEN <<Digits[n + 1]>>
          ELSE Fmt(n \div 10) \o <<Digits[(n % 10) + 1]>>
FmtOpt(n) == IF n = -1 THEN <<>> ELSE Fmt(n)

Bare(n) == [kind |-> "bare", a |-> n, b |-> n, text |-> Fmt(n)]
Plus(n) == [kind |-> "bare", a |-> n, b |-> n, text |-> <<"+">> \o Fmt(n)]
Rng(a, b) == [kind |-> "range", a |-> a, b |-> b,
              text |-> FmtOpt(a) \o <<"-">> \o FmtOpt(b)]
Bad(t) == [kind |-> "bad", a |-> -1, b |-> -1, text |-> t]

Shapes ==
    {Bare(0), Bare(2), Bare(UsizeMax), Bare(UsizeMax + 1), Plus(1)}
    \cup {Rng(1, 2), Rng(2, 1), Rng(0, 1), Rng(-1, 2), Rng(2, -1),
          Rng(-1, -1), Rng(UsizeMax, UsizeMax), Rng(-1, UsizeMax)}
    \cup {Bad(<<>>), Bad(<<"a">>), Bad(<<"a", "-">>), Bad(<<"-", "a">>),
          Bad(<<"1", "-", "2", "-", "3">>)}

ShapeLists == UNION {[1..n -> Shapes] : n \in 0..MaxTokens}

DownloadOff ==
    /\ url = ""
    /\ remoteSize = 0
    /\ hasLen = FALSE
    /\ fileExists = FALSE
    /\ file = <<>>
    /\ pc = "off"
    /\ retries = 0
    /\ res = NoRes
    /\ ret = NoRes
    /\ downloaded = 0
    /\ total_size = 0
    /\ rangeFrom = -1
    /\ pos = 0
    /\ answered = FALSE
    /\ hist = <<>>
    /\ startLen = 0
    /\ startFile = <<>>
    /\ sleeps = 0
    /\ fetches = 0
    /\ calls = 0
    /\ file0 = <<>>
    /\ exists0 = FALSE
    /\ origin = "absent"
    /\ cutAt = -1

InitRange ==
    /\ shapes \in ShapeLists
    /\ values = [i \in 1..Len(shapes) |-> shapes[i].text]
    /\ max_value \in 0..MaxValue
    /\ rpc = "input"
    /\ output = ResultOk(<<>>)
    /\ DownloadOff
    /\ BundleOff
    /\ UtilOff

\* parse_usize_range is called on a single token
ParseToken ==
    /\ rpc = "input"
    /\ Len(values) = 1
    /\ LET p == parse_usize_range(values[1], max_value) IN
       output' = IF p.some THEN ResultOk(p.v) ELSE ResultErr(<<>>)
    /\ rpc' = "parsed"
    /\ UNCHANGED <<values, shapes, max_value>>
    /\ UNCHANGED <<dlVars, obVars, utVars>>

\* union_usize_ranges is called on the token list
Resolve ==
    /\ rpc = "input"
    /\ output' = union_usize_ranges(values, max_value)
    /\ rpc' = "done"
    /\ UNCHANGED <<values, shapes, max_value>>
    /\ UNCHANGED <<dlVars, obVars, utVars>>

NextRange ==
    \/ ParseToken
    \/ Resolve

SpecRange == InitRange /\ [][NextRange]_vars

(***************************************************************************)
(* The download orchestrator of lib.rs.  Strings the code inspects         *)
(* (formats, names, urls, the item-numbers expression, the lines of the    *)
(* bundle list) are sequences of characters.                               *)
(***************************************************************************)
MaxProducts == 2  \* products in a bundle
MaxLimit == 2     \* largest --max-size, in bytes

\* str::to_lowercase, on the letters the inputs are made of
Uppers == <<"A", "B", "C", "D", "E", "P", "X">>
Lowers == <<"a", "b", "c", "d", "e", "p", "x">>
LowerChar(c) ==
    IF \E i \in 1..Len(Uppers) : Uppers[i] = c
    THEN Lowers[CHOOSE i \in 1..Len(Uppers) : Uppers[i] = c]
    ELSE c
to_lowercase(s) == [i \in 1..Len(s) |-> LowerChar(s[i])]

Contains(q, x) == \E i \in 1..Len(q) : q[i] = x

\* str::find
IndexOf(s, c) ==
    IF \E i \in 1..Len(s) : s[i] = c
    THEN CHOOSE i \in 1..Len(s) : s[i] = c /\ \A j \in 1..(i - 1) : s[j] # c
    ELSE 0

\* str::split: the pieces between the separators, empty ones included
RECURSIVE Split(_, _)
Split(s, sep) ==
    LET i == IndexOf(s, sep) IN
    IF i = 0 THEN <<s>>
    ELSE <<SubSeq(s, 1, i - 1)>> \o Split(SubSeq(s, i + 1, Len(s)), sep)


(***************************************************************************)
(* util.rs: names and urls.                                                *)
(***************************************************************************)
InvalidChars == {"/", "\\", "?", "%", "*", ":", "|", "\"", "<", ">", ";",
                 "=", "\n"}

\* the characters str::trim removes
WhiteSpace == {" ", "\t", "\n", "\r"}

RECURSIVE TrimStart(_)
TrimStart(s) ==
    IF s # <<>> /\ Head(s) \in WhiteSpace THEN TrimStart(Tail(s)) ELSE s

RECURSIVE TrimEnd(_)
TrimEnd(s) ==
    IF s # <<>> /\ s[Len(s)] \in WhiteSpace
    THEN TrimEnd(SubSeq(s, 1, Len(s) - 1))
    ELSE s

\* util.rs:23-41
SanitizeNoTrim(input) ==
    [i \in 1..Len(input) |-> IF input[i] \in InvalidChars THEN " "
                             ELSE input[i]]
replace_invalid_chars_in_filename(input) ==
    TrimEnd(TrimStart([i \in 1..Len(input) |->
                          IF input[i] \in InvalidChars THEN " "
                          ELSE input[i]]))

\* the part of s before the first character of stops
RECURSIVE UpTo(_, _)
UpTo(s, stops) ==
    IF s = <<>> \/ Head(s) \in stops THEN <<>>
    ELSE <<Head(s)>> \o UpTo(Tail(s), stops)

\* the part of s after its leading '/' characters
RECURSIVE SkipSlashes(_)
SkipSlashes(s) ==
    IF s # <<>> /\ Head(s) = "/" THEN SkipSlashes(Tail(s)) ELSE s

\* util.rs:43-55, for urls of the scheme of the download urls (written
\* "h").  Url::parse fails on text with no scheme and on a url with no
\* host; the host starts after the '/' characters that follow the scheme
\* and ends at '/', '?' or '#'; the path ends at '?' or '#', and an empty
\* path is "/".
ExtractAfterLastSlash(u) ==
    LET segs == Split(u, "/") IN
    IF segs[Len(segs)] = <<>> THEN None ELSE Some(segs[Len(segs)])
extract_filename_from_url(u) ==
    LET colon == IndexOf(u, ":")
        scheme == SubSeq(u, 1, colon - 1)
        rest == SubSeq(u, colon + 1, Len(u))
    IN
    IF colon <= 1 \/ \E i \in 1..Len(scheme) : scheme[i] \in {"/", "?", "#"}
    THEN None
    ELSE LET after == SkipSlashes(rest)
             host == UpTo(after, {"/", "?", "#"})
             tail == SubSeq(after, Len(host) + 1, Len(after))
             path == UpTo(tail, {"?", "#"})
             path_segments ==
                 IF path = <<>> THEN <<<<>>>>
                 ELSE Split(Tail(path), "/")
             segment == path_segments[Len(path_segments)]
         IN
         IF host = <<>> THEN None
         ELSE IF segment = <<>> THEN None
         ELSE Some(segment)

\* util.rs:57-79
str_vectors_intersect(first, second) ==
    IF first = <<>> \/ second = <<>> THEN FALSE
    ELSE LET first_set == {to_lowercase(first[i]) : i \in 1..Len(first)} IN
         \E j \in 1..Len(second) : to_lowercase(second[j]) \in first_set

(***************************************************************************)
(* models.rs: a Product holds ProductDownloads, each holding DownloadInfos.*)
(***************************************************************************)
DownloadUrl(web, bittorrent) == [web |-> web, bittorrent |-> bittorrent]
DownloadInfo(format, file_size, u) ==
    [format |-> format, file_size |-> file_size, url |-> u]
ProductDownload(items) == [items |-> items]
Product(human_name, downloads) ==
    [human_name |-> human_name, downloads |-> downloads]

RECURSIVE SumSizes(_)
SumSizes(items) ==
    IF items = <<>> THEN 0
    ELSE Head(items).file_size + SumSizes(Tail(items))

\* the DownloadInfos of a product, in the order of its nested loops
RECURSIVE Items(_)
Items(downloads) ==
    IF downloads = <<>> THEN <<>>
    ELSE Head(downloads).items \o Items(Tail(downloads))

\* Product::total_size (models.rs:117-119)
total_size_of(p) == SumSizes(Items(p.downloads))

\* Product::formats_as_vec (models.rs:121-126)
formats_as_vec(p) ==
    LET its == Items(p.downloads) IN [i \in 1..Len(its) |-> its[i].format]

(***************************************************************************)
(* download_bundle: the selection filter and the per-file check.           *)
(***************************************************************************)
\* lib.rs:396, on the 1-based position i
item_test(i, nums) == nums = <<>> \/ Contains(nums, i)

\* lib.rs:398
SizeTestInclusive(p, max) == max = 0 \/ total_size_of(p) <= max
size_test(p, max) == max = 0 \/ total_size_of(p) < max

\* lib.rs:399
format_test(p, fmts) ==
    fmts = <<>> \/ str_vectors_intersect(formats_as_vec(p), fmts)

\* lib.rs:392-400: the catalog positions the chain of filters keeps
Selection(prods, nums, max, fmts) ==
    SelectSeq([i \in 1..Len(prods) |-> i],
              LAMBDA i : /\ item_test(i, nums)
                         /\ size_test(prods[i], max)
                         /\ format_test(prods[i], fmts))

\* lib.rs:435, negated: the file is not skipped
FileWantedExact(fmts, dl_info) ==
    fmts = <<>> \/ Contains(fmts, dl_info.format)
file_wanted(fmts, dl_info) ==
    fmts = <<>> \/ Contains(fmts, to_lowercase(dl_info.format))

\* lib.rs:420: the guard of the product loop
over_limit(p, max) == max > 0 /\ total_size_of(p) > max

\* lib.rs:440-444
UrlWebAlways(u, torrents) == u.web
download_url_of(u, torrents) == IF torrents THEN u.bittorrent ELSE u.web

\* lib.rs:402-405
ProductsNeverEmpty(sel) == FALSE
products_is_empty(sel) == sel = <<>>

\* lib.rs:346-349: a failed bundle is pushed on err_vec
PushErrDropped(ev, name, line, err) == ev
push_err(ev, name, line, err) ==
    Append(ev, [name |-> name, line |-> line, err |-> err])

\* key_match.rs:2
FULL_KEY_SIZE == 16

\* key_match.rs:17-19
is_full_key(key) == Len(key) = FULL_KEY_SIZE

\* str::starts_with
starts_with(s, prefix) ==
    /\ Len(prefix) <= Len(s)
    /\ SubSeq(s, 1, Len(prefix)) = prefix

\* key_match.rs:26-38: a full key is returned without any search, a
\* partial key is searched for case-insensitively
GetMatchesSearchAlways(keys, target) ==
    SelectSeq(keys,
              LAMBDA k : starts_with(to_lowercase(k), to_lowercase(target)))
GetMatchesCaseSensitive(keys, target) ==
    IF is_full_key(target) THEN <<target>>
    ELSE SelectSeq(keys, LAMBDA k : starts_with(k, target))
get_matches(keys, target) ==
    IF is_full_key(target) THEN <<target>>
    ELSE SelectSeq(keys,
                   LAMBDA k : starts_with(to_lowercase(k),
                                          to_lowercase(target)))

\* lib.rs:212-230
find_key(all_keys, key_to_find) ==
    LET keys == get_matches(all_keys, key_to_find) IN
    IF Len(keys) = 1 THEN Some(keys[1]) ELSE None

\* lib.rs:456: block_on lets the caller go on only when the future is done
RunFutureDetached(fl) == TRUE
run_future(fl) == fl = {}

\* the `?` of lib.rs:447 and 456: what follows a per-file result
PropagateNever(r) == FALSE
Propagates(r) == ~r.ok

\* lib.rs:357: download_bundles returns Ok(()) whatever err_vec holds
BatchResultFirstError(ev) == IF ev = <<>> THEN BOk ELSE ev[1].err
batch_result(ev) == BOk

\* lib.rs:339-343
bundle_name_of(parts) == IF parts # <<>> THEN parts[2] ELSE parts[1]

(***************************************************************************)
(* The inputs: what the user types and what the API answers.               *)
(***************************************************************************)
Web(name) == <<"h", ":", "/", "/", "d", "/">> \o name
Torrent(name) == <<"h", ":", "/", "/", "t", "/">> \o name \o <<"t">>
File(format, size, name) ==
    DownloadInfo(format, size, DownloadUrl(Web(name), Torrent(name)))

\* a file whose urls carry a query string
FileQuery(format, size, name) ==
    DownloadInfo(format, size,
                 DownloadUrl(Web(name) \o <<"?", "1">>,
                             Torrent(name) \o <<"?", "1">>))

\* a file whose web url ends in '/', and one whose torrent url has no scheme
FileNoName(format, size) ==
    DownloadInfo(format, size,
                 DownloadUrl(<<"h", ":", "/", "/", "d", "/">>,
                             Torrent(<<"n">>)))
FileMalformed(format, size, name) ==
    DownloadInfo(format, size,
                 DownloadUrl(Web(name), <<"t", "/">> \o name))

Products ==
    { Product(<<"A", ":">>,
              <<ProductDownload(<<FileQuery(<<"e">>, 1, <<"a">>)>>)>>),
      Product(<<"B">>,
              <<ProductDownload(<<File(<<"E">>, 1, <<"b">>)>>),
                ProductDownload(<<FileMalformed(<<"p">>, 1, <<"c">>)>>)>>),
      Product(<<"A">>,
              <<ProductDownload(<<File(<<"e">>, 1, <<"a">>),
                                  FileNoName(<<"p">>, 1),
                                  File(<<"e">>, 1, <<"b">>)>>)>>),
      Product(<<"E">>, <<>>) }

Catalogs == UNION {[1..n -> Products] : n \in 0..MaxProducts}

BundleNames == {<<"X">>}

Bundles == {[human_name |-> n, products |-> c] :
               n \in BundleNames, c \in Catalogs}

\* --format values as typed
FormatArgs == {<<>>, <<<<"E">>>>, <<<<"p">>>>}

\* --item-numbers expressions
ItemExprs == { <<"1">>, <<"2", "-">>, <<"2", "-", "1">>, <<"3">>,
               <<"1", ",", "a">> }

\* bundle lists: a line holds a key and a name, or a key alone
LineKN == <<"A", "1", ",", "n">>
LineJM == <<"a", "b", ",", "m">>
LineK == <<"A", "1">>
LineLists == { <<>>, <<LineKN>>, <<LineK>>, <<LineKN, LineJM>>,
               <<LineK, LineJM>>, <<LineKN, LineK>> }

\* the bundle keys list_bundle_keys answers with
Rep(c, n) == [i \in 1..n |-> c]
Key1 == <<"a", "1">> \o Rep("1", FULL_KEY_SIZE - 2)
Key2 == <<"a", "B">> \o Rep("2", FULL_KEY_SIZE - 2)
Key3 == <<"b">> \o Rep("3", FULL_KEY_SIZE - 1)
AllKeys == <<Key1, Key2, Key3>>

\* a key of full length that no bundle has
KeyAbsent == Rep("c", FULL_KEY_SIZE)

\* the KEY argument of the download command: a full key of the account, a
\* prefix of two keys, a prefix of no key, and a full key no bundle has
KeyArgs == { Key3, <<"a">>, <<"x">>, KeyAbsent }

\* the errors download_file returns
DownloadErrors == {Network("other")}

(***************************************************************************)
(* The download and bulk-download commands.                                *)
(***************************************************************************)
InitBundle ==
    /\ cmd \in {"download", "bulk-download"}
    /\ argFormats \in FormatArgs
    /\ formats = <<>>
    /\ max_size \in 0..MaxLimit
    /\ item_numbers \in IF cmd = "download"
                        THEN {None} \cup {Some(e) : e \in ItemExprs}
                        ELSE {None}
    /\ torrents_only \in BOOLEAN
    /\ cur_dir \in BOOLEAN
    /\ lines \in IF cmd = "bulk-download" THEN LineLists ELSE {<<>>}
    /\ bundle_key \in IF cmd = "download" THEN KeyArgs ELSE {<<>>}
    /\ lineIdx = 0
    /\ err_vec = <<>>
    /\ bundle = NoBundle
    /\ resolved = <<>>
    /\ products = <<>>
    /\ opc = "main"
    /\ prodIdx = 0
    /\ fileIdx = 0
    /\ dirs \in {{}, {<<<<"X">>>>, <<<<"X">>, <<"B">>>>}}
    /\ dirs0 = dirs
    /\ inflight = {}
    /\ dlog = <<>>
    /\ written = {}
    /\ skips = <<>>
    /\ failed = <<>>
    /\ bret = BOk
    /\ mret = BOk
    /\ report = <<>>
    /\ DownloadOff
    /\ RangeOff
    /\ UtilOff

cfgVars == <<cmd, argFormats, max_size, torrents_only, cur_dir, lines>>
callVars == <<bundle, resolved, products, prodIdx, fileIdx, dirs, dirs0,
              inflight, dlog, written, skips, failed>>

\* main.rs:310-334: the download command calls download_bundle
MainDownload ==
    /\ opc = "main"
    /\ cmd = "download"
    /\ formats' = [i \in 1..Len(argFormats) |-> to_lowercase(argFormats[i])]
    /\ opc' = "called"
    /\ UNCHANGED <<cfgVars, callVars, item_numbers, bundle_key, lineIdx,
                   err_vec, bret,
                   mret, report>>
    /\ UNCHANGED <<dlVars, rrVars, utVars>>

\* main.rs:351-367 and lib.rs:332-335: the bulk-download command reads the
\* bundle list; read_to_string may fail
MainBulk ==
    /\ opc = "main"
    /\ cmd = "bulk-download"
    /\ formats' = [i \in 1..Len(argFormats) |-> to_lowercase(argFormats[i])]
    /\ \/ /\ opc' = "line"
          /\ lineIdx' = 1
          /\ UNCHANGED mret
       \/ /\ opc' = "exit"
          /\ mret' = BErr("read_to_string", IOErr)
          /\ UNCHANGED lineIdx
    /\ UNCHANGED <<cfgVars, callVars, item_numbers, bundle_key, err_vec,
                   bret, report>>
    /\ UNCHANGED <<dlVars, rrVars, utVars>>

RECURSIVE ErrNames(_)
ErrNames(ev) ==
    IF ev = <<>> THEN <<>> ELSE <<Head(ev).name>> \o ErrNames(Tail(ev))

\* lib.rs:336-357: the head of the loop over the lines, and the report
\* after the last line.  parts[1] of a line without a comma is out of
\* bounds.
BatchLine ==
    /\ opc = "line"
    /\ IF lineIdx > Len(lines)
       THEN /\ report' = ErrNames(err_vec)
            /\ mret' = batch_result(err_vec)
            /\ opc' = "exit"
            /\ UNCHANGED bundle_key
       ELSE LET parts == Split(lines[lineIdx], ",") IN
            /\ opc' = IF parts # <<>> /\ Len(parts) < 2 THEN "panicked"
                      ELSE "called"
            /\ bundle_key' = parts[1]
            /\ UNCHANGED <<report, mret>>
    /\ UNCHANGED <<cfgVars, callVars, formats, item_numbers, lineIdx,
                   err_vec, bret>>
    /\ UNCHANGED <<dlVars, rrVars, utVars>>

\* humble_api.rs:238-257: read_bundle answers with a bundle only for a key
\* the account has
HasBundle(key) == \E i \in 1..Len(AllKeys) : AllKeys[i] = key

\* lib.rs:368-377: the session key, the bundle keys, find_key, read_bundle
Lookup ==
    /\ opc = "called"
    /\ dirs0' = dirs
    /\ \/ /\ \E e \in {"get_config", "list_bundle_keys"} :
                bret' = BErr(e, Generic(<<"failed">>))
          /\ opc' = "returned"
          /\ bundle' = NoBundle
       \/ LET key == find_key(AllKeys, bundle_key) IN
          IF key.some
          THEN \/ /\ bret' = BErr("read_bundle", Generic(<<"failed">>))
                  /\ opc' = "returned"
                  /\ bundle' = NoBundle
               \/ /\ HasBundle(key.v)
                  /\ bundle' \in Bundles
                  /\ opc' = "read"
                  /\ UNCHANGED bret
          ELSE /\ bret' = BOk
               /\ opc' = "returned"
               /\ bundle' = NoBundle
    /\ UNCHANGED <<cfgVars, formats, item_numbers, bundle_key, lineIdx,
                   err_vec, dirs,
                   resolved, products, prodIdx, fileIdx, inflight, dlog,
                   written, skips, failed, mret, report>>
    /\ UNCHANGED <<dlVars, rrVars, utVars>>

BundleDir == IF cur_dir THEN <<<<".">>>>
             ELSE <<replace_invalid_chars_in_filename(bundle.human_name)>>

\* lib.rs:382-417: the item numbers, the filter, the bundle directory and
\* the HTTP client; create_dir and the client builder may fail
Select ==
    /\ opc = "read"
    /\ LET r == IF item_numbers.some
                THEN union_usize_ranges(Split(item_numbers.v, ","),
                                        Len(bundle.products))
                ELSE ResultOk(<<>>)
           sel == Selection(bundle.products, r.val, max_size, formats)
       IN
       IF ~r.ok
       THEN /\ bret' = BErr("item_numbers", Generic(r.msg))
            /\ opc' = "returned"
            /\ UNCHANGED <<resolved, products, prodIdx, dirs>>
       ELSE /\ resolved' = r.val
            /\ products' = sel
            /\ IF products_is_empty(sel)
               THEN /\ bret' = BOk
                    /\ opc' = "returned"
                    /\ UNCHANGED <<prodIdx, dirs>>
               ELSE \/ /\ dirs' = IF cur_dir THEN dirs ELSE dirs \cup {BundleDir}
                       /\ opc' = "product"
                       /\ prodIdx' = 1
                       /\ UNCHANGED bret
                    \/ /\ ~cur_dir
                       /\ BundleDir \notin dirs
                       /\ bret' = BErr("create_dir", IOErr)
                       /\ opc' = "returned"
                       /\ UNCHANGED <<prodIdx, dirs>>
                    \/ /\ dirs' = IF cur_dir THEN dirs ELSE dirs \cup {BundleDir}
                       /\ bret' = BErr("client", Generic(<<"builder">>))
                       /\ opc' = "returned"
                       /\ UNCHANGED prodIdx
    /\ UNCHANGED <<cfgVars, formats, item_numbers, bundle_key, lineIdx,
                   err_vec, bundle,
                   fileIdx, dirs0, inflight, dlog, written, skips, failed,
                   mret, report>>
    /\ UNCHANGED <<dlVars, rrVars, utVars>>

CurPos == products[prodIdx]
CurProduct == bundle.products[CurPos]
EntryDir ==
    BundleDir \o <<replace_invalid_chars_in_filename(CurProduct.human_name)>>

\* lib.rs:419-431 and 461: the head of the product loop
ProductStep ==
    /\ opc = "product"
    /\ run_future(inflight)
    /\ IF prodIdx > Len(products)
       THEN /\ bret' = BOk
            /\ opc' = "returned"
            /\ UNCHANGED <<prodIdx, fileIdx, dirs>>
       ELSE IF over_limit(CurProduct, max_size)
       THEN /\ prodIdx' = prodIdx + 1
            /\ UNCHANGED <<bret, opc, fileIdx, dirs>>
       ELSE \/ /\ dirs' = dirs \cup {EntryDir}
               /\ opc' = "file"
               /\ fileIdx' = 1
               /\ UNCHANGED <<bret, prodIdx>>
            \/ /\ EntryDir \notin dirs
               /\ bret' = BErr("create_dir", IOErr)
               /\ opc' = "returned"
               /\ UNCHANGED <<prodIdx, fileIdx, dirs>>
    /\ UNCHANGED <<cfgVars, formats, item_numbers, bundle_key, lineIdx,
                   err_vec, bundle,
                   resolved, products, dirs0, inflight, dlog, written, skips,
                   failed, mret, report>>
    /\ UNCHANGED <<dlVars, rrVars, utVars>>

CurItems == Items(CurProduct.downloads)

\* lib.rs:433-455: the head of the file loops: the format check, the
\* filename, and the call of download_file
FileStep ==
    /\ opc = "file"
    /\ run_future(inflight)
    /\ IF fileIdx > Len(CurItems)
       THEN /\ opc' = "product"
            /\ prodIdx' = prodIdx + 1
            /\ UNCHANGED <<fileIdx, bret, inflight, dlog, skips, failed>>
       ELSE LET dl_info == CurItems[fileIdx]
                download_url == download_url_of(dl_info.url, torrents_only)
                filename == extract_filename_from_url(download_url)
                call == [pos |-> CurPos, idx |-> fileIdx,
                         url |-> download_url,
                         path |-> EntryDir \o <<filename.v>>]
                result == IF filename.some THEN BOk
                          ELSE BErr("filename",
                                    Generic(<<"Cannot get file name from URL '">>
                                            \o download_url \o <<"'">>))
            IN
            IF ~file_wanted(formats, dl_info)
            THEN /\ skips' = Append(skips, <<CurPos, fileIdx>>)
                 /\ fileIdx' = fileIdx + 1
                 /\ UNCHANGED <<opc, prodIdx, bret, inflight, dlog, failed>>
            ELSE IF ~filename.some
            THEN /\ failed' = Append(failed, [pos |-> CurPos, idx |-> fileIdx,
                                          kind |-> "filename"])
                 /\ IF Propagates(result)
                    THEN /\ bret' = result
                         /\ opc' = "returned"
                         /\ UNCHANGED fileIdx
                    ELSE /\ fileIdx' = fileIdx + 1
                         /\ UNCHANGED <<bret, opc>>
                 /\ UNCHANGED <<prodIdx, inflight, dlog, skips>>
            ELSE /\ inflight' = inflight \cup {call}
                 /\ dlog' = Append(dlog, call)
                 /\ UNCHANGED <<opc, prodIdx, fileIdx, bret, skips, failed>>
    /\ UNCHANGED <<cfgVars, formats, item_numbers, bundle_key, lineIdx,
                   err_vec, bundle,
                   resolved, products, dirs, dirs0, written, mret, report>>
    /\ UNCHANGED <<dlVars, rrVars, utVars>>

\* lib.rs:450-456: download_file returns; its error ends download_bundle
DownloadReturns ==
    /\ opc = "file"
    /\ inflight # {}
    /\ \E call \in inflight :
          \E r \in {Ok, Generic(NoLengthMsg(call.url))} \cup DownloadErrors :
             LET result == IF r.kind = "Ok" THEN BOk
                           ELSE BErr("download_file", r) IN
             /\ inflight' = inflight \ {call}
             /\ failed' = IF result.ok THEN failed
                           ELSE Append(failed, [pos |-> call.pos, idx |-> call.idx,
                                                kind |-> r.kind])
             /\ written' = IF result.ok THEN written \cup {call.path}
                            ELSE written
             /\ IF Propagates(result)
                THEN /\ bret' = result
                     /\ opc' = "returned"
                     /\ UNCHANGED fileIdx
                ELSE /\ fileIdx' = fileIdx + 1
                     /\ UNCHANGED <<bret, opc>>
    /\ UNCHANGED <<cfgVars, formats, item_numbers, bundle_key, lineIdx,
                   err_vec, bundle,
                   resolved, products, prodIdx, dirs, dirs0, dlog, skips,
                   mret, report>>
    /\ UNCHANGED <<dlVars, rrVars, utVars>>

\* main.rs:326-333 and lib.rs:345-350: the caller takes the result of
\* download_bundle, whose locals are dropped
BundleReturned ==
    /\ opc = "returned"
    /\ IF cmd = "download"
       THEN /\ mret' = bret
            /\ opc' = "exit"
            /\ UNCHANGED <<lineIdx, err_vec>>
       ELSE LET parts == Split(lines[lineIdx], ",") IN
            /\ err_vec' = IF bret.ok THEN err_vec
                          ELSE push_err(err_vec, bundle_name_of(parts),
                                        lineIdx, bret)
            /\ lineIdx' = lineIdx + 1
            /\ opc' = "line"
            /\ UNCHANGED mret
    /\ bundle' = NoBundle
    /\ resolved' = <<>>
    /\ products' = <<>>
    /\ prodIdx' = 0
    /\ fileIdx' = 0
    /\ dlog' = <<>>
    /\ written' = {}
    /\ skips' = <<>>
    /\ failed' = <<>>
    /\ UNCHANGED <<cfgVars, formats, item_numbers, bundle_key, dirs, dirs0,
                   inflight,
                   bret, report>>
    /\ UNCHANGED <<dlVars, rrVars, utVars>>

NextBundle ==
    \/ MainDownload
    \/ MainBulk
    \/ BatchLine
    \/ Lookup
    \/ Select
    \/ ProductStep
    \/ FileStep
    \/ DownloadReturns
    \/ BundleReturned

SpecBundle == InitBundle /\ [][NextBundle]_vars

(***************************************************************************)
(* Properties of download_file.  The server honours the Range header and   *)
(* a response body is delivered whole unless a transport error cuts it.    *)
(***************************************************************************)
ConnectOrTimeout(r) == r \in {Network("connect"), Network("timeout")}
Last(s) == s[Len(s)]
Names(m, u) == \E j \in 1..Len(m) : m[j] = u

\* C1: download_file makes at most 4 attempts of _download_file; a call that
\* returned after fewer than 4 attempts did not end in a connect or timeout
\* error (so three such failures lead to a 4th attempt), and what it returns
\* is the result of its last attempt: success when the 4th attempt succeeds,
\* the 4th error when the 4th attempt fails.
C1_RetryBudget ==
    /\ Len(hist) <= 4
    /\ pc = "returned" =>
         /\ Len(hist) >= 1
         /\ ret = Last(hist)
         /\ Len(hist) < 4 => ~ConnectOrTimeout(ret)
    /\ (pc = "attempt_done" /\ Len(hist) = 4) => retries = 0
    /\ pc \in {"sleeping", "loop"} => Len(hist) < 4

C1_Witness ==
    /\ pc = "returned"
    /\ Len(hist) = 4
    /\ \A i \in 1..3 : ConnectOrTimeout(hist[i])
    /\ ret = Ok

C1_WitnessExhausted ==
    /\ pc = "returned"
    /\ Len(hist) = 4
    /\ \A i \in 1..4 : ConnectOrTimeout(hist[i])
    /\ ret = hist[4]

\* C2: a further attempt starts only after an attempt that failed with a
\* connect or timeout Network error; an attempt ending in success, an IO
\* error, a Generic error or another Network error makes download_file return
\* that result at once, with no sleep and no further attempt.
C2_RetryOnlyConnectTimeout ==
    /\ [](pc \in {"sleeping", "loop"} /\ hist # <<>>
            => ConnectOrTimeout(Last(hist)) /\ sleeps = Len(hist))
    /\ [][(pc = "attempt_done" /\ ~ConnectOrTimeout(res))
            => (pc' = "returned" /\ ret' = res /\ sleeps' = sleeps
                /\ hist' = hist /\ file' = file)]_vars

C2_Witness ==
    /\ pc = "returned"
    /\ Len(hist) = 2
    /\ ConnectOrTimeout(hist[1])
    /\ ret = Network("other")
    /\ sleeps = 1

\* C3: the offset of an attempt's Range request is the length the file had
\* when the attempt started, and the bytes on disk at the start of an attempt
\* (and of the call) stay where they are: the file only grows at its end.
C3_ReprobeAndAppend ==
    /\ rangeFrom # -1 => rangeFrom = startLen
    /\ pc \in {"opened", "sized", "streaming", "attempt_done", "sleeping",
               "returned"} => IsPrefix(startFile, file)
    /\ (calls >= 1 /\ exists0) => IsPrefix(file0, file)
    /\ pc = "streaming" => Len(file) = rangeFrom + pos

C3_Witness ==
    /\ origin = "absent"
    /\ calls = 1
    /\ Len(hist) = 1
    /\ ConnectOrTimeout(hist[1])
    /\ pc = "streaming"
    /\ rangeFrom = 1
    /\ pos = 1
    /\ file = <<1, 2>>

\* C4: when a transfer was cut after k < S bytes and download_file is called
\* again on the same url and destination and returns success, the file holds
\* exactly the S remote bytes; at every moment the file is a prefix of the
\* remote content, so no byte is written twice.
C4_IdempotentResume ==
    origin # "foreign" =>
        /\ IsPrefix(file, Remote)
        /\ (pc = "returned" /\ ret = Ok) => file = Remote

C4_Witness ==
    /\ origin = "absent"
    /\ cutAt \in 1..(remoteSize - 1)
    /\ calls = 2
    /\ pc = "returned"
    /\ ret = Ok
    /\ file0 = SubSeq(Remote, 1, cutAt)
    /\ file = Remote

\* C5: when the file that exists at the start of a call is at least as long
\* as the remote content length, no ranged request is sent, the file is left
\* as it is, and an attempt whose size query is answered ends in success.
C5_NothingToDo ==
    (calls >= 1 /\ exists0 /\ hasLen /\ Len(file0) >= remoteSize) =>
        /\ fetches = 0
        /\ file = file0
        /\ (answered /\ pc = "attempt_done") => res = Ok
        /\ (answered /\ pc = "returned") => ret = Ok

C5_Witness ==
    /\ calls >= 1
    /\ exists0
    /\ remoteSize > 0
    /\ Len(file0) = remoteSize
    /\ pc = "returned"
    /\ ret = Ok
    /\ fetches = 0
    /\ file = file0

\* C6 as stated: after any download attempts the local file is never longer
\* than the remote total_size.
C6_NeverExceedsTotal ==
    (calls >= 1 /\ hasLen /\ answered /\ pc \in {"attempt_done", "returned"})
        => Len(file) <= total_size

\* C6 amended: download attempts never grow a file beyond total_size: a file
\* no longer than total_size at the start of a call stays so, and a file
\* that is already longer is left as it is.
C6_NeverGrowsPastTotal ==
    calls >= 1 =>
        /\ Len(file0) <= remoteSize => Len(file) <= remoteSize
        /\ Len(file0) > remoteSize => file = file0

C6_Witness ==
    /\ origin = "foreign"
    /\ Len(file0) = 1
    /\ remoteSize = 3
    /\ pc = "returned"
    /\ ret = Ok
    /\ Len(file) = 3

\* C7: when the response to the size query carries no content length, the
\* attempt ends in a Generic error whose message names the url, no ranged
\* request is sent, and download_file returns that error with no retry.
C7_NoContentLength ==
    ~hasLen =>
        /\ fetches = 0
        /\ pc \notin {"sized", "streaming"}
        /\ (answered /\ pc \in {"attempt_done", "returned"}) =>
              /\ Last(hist).kind = "Generic"
              /\ Names(Last(hist).msg, url)
        /\ \A i \in 1..Len(hist) :
              hist[i].kind = "Generic" =>
                 /\ i = Len(hist)
                 /\ pc \in {"attempt_done", "returned"}
                 /\ pc = "returned" => ret = hist[i]
                 /\ sleeps = Len(hist) - 1

C7_Witness ==
    /\ ~hasLen
    /\ pc = "returned"
    /\ Len(hist) = 2
    /\ ConnectOrTimeout(hist[1])
    /\ ret.kind = "Generic"
    /\ Names(ret.msg, url)
    /\ fetches = 0

(***************************************************************************)
(* Properties of the range resolver, stated on the reading of the tokens.  *)
(***************************************************************************)
\* a shape is a valid token when it is a number or a range and its numbers
\* are integers a usize holds
ShapeValid(sh) ==
    /\ sh.kind # "bad"
    /\ sh.a <= UsizeMax
    /\ sh.b <= UsizeMax

\* the set a valid token stands for
ShapeSet(sh, maxv) ==
    IF sh.kind = "bare" THEN {sh.a}
    ELSE (IF sh.a = -1 THEN 1 ELSE sh.a)..(IF sh.b = -1 THEN maxv ELSE sh.b)

IsAscending(q) == \A i \in 1..(Len(q) - 1) : q[i] < q[i + 1]

AllValid == \A i \in 1..Len(shapes) : ShapeValid(shapes[i])

\* the offending tokens from token i on, in input order, each in quotes,
\* separated by a comma and a space
RECURSIVE Offending(_, _)
Offending(i, first) ==
    IF i > Len(shapes) THEN <<>>
    ELSE IF ShapeValid(shapes[i]) THEN Offending(i + 1, first)
    ELSE (IF first THEN <<>> ELSE <<",", " ">>)
         \o <<"'">> \o values[i] \o <<"'">> \o Offending(i + 1, FALSE)

\* C8: for valid tokens union_usize_ranges returns the ascending,
\* duplicate-free union of the per-token sets: N gives {N}, A-B gives A..B,
\* -B gives 1..B, A- gives A..max_value and - gives 1..max_value.
C8_UnionOfTokenSets ==
    (rpc = "done" /\ AllValid) =>
        /\ output.ok
        /\ IsAscending(output.val)
        /\ SeqRange(output.val)
             = UNION {ShapeSet(shapes[i], max_value) : i \in 1..Len(shapes)}

\* what holds of C8: the same, for tokens whose right bound (max_value when
\* it is left out) is below usize::MAX
C8_BelowUsizeMax ==
    (/\ rpc = "done"
     /\ AllValid
     /\ max_value < UsizeMax
     /\ \A i \in 1..Len(shapes) :
           shapes[i].kind = "range" => shapes[i].b < UsizeMax) =>
        /\ output.ok
        /\ IsAscending(output.val)
        /\ SeqRange(output.val)
             = UNION {ShapeSet(shapes[i], max_value) : i \in 1..Len(shapes)}

\* C9: when some token is not valid, union_usize_ranges returns an error and
\* no indices, also when other tokens are valid, and the message lists the
\* offending raw tokens, all of them and no other, in input order, separated
\* by commas.
C9_ErrorListsOffendingTokens ==
    (rpc = "done" /\ ~AllValid) =>
        /\ ~output.ok
        /\ output.val = <<>>
        /\ output.msg = Offending(1, TRUE)

C9_Witness ==
    /\ rpc = "done"
    /\ Len(shapes) = 3
    /\ shapes[1] = Bad(<<"a", "-">>)
    /\ shapes[2] = Rng(1, 2)
    /\ shapes[3] = Bad(<<>>)
    /\ ~output.ok
    /\ output.msg = <<"'", "a", "-", "'", ",", " ", "'", "'">>

\* C10: every index of a successful result of parse_usize_range and of
\* union_usize_ranges is at least 1.
C10_IndicesAtLeastOne ==
    (rpc \in {"parsed", "done"} /\ output.ok) =>
        \A i \in 1..Len(output.val) : output.val[i] >= 1

\* C11: every index of a successful result of union_usize_ranges is at most
\* max_value (the number of products of the bundle), for bare integers and
\* for ranges with an explicit right bound as well.
C11_IndicesAtMostMax ==
    (rpc \in {"parsed", "done"} /\ output.ok) =>
        \A i \in 1..Len(output.val) : output.val[i] <= max_value

(***************************************************************************)
(* Properties of download_bundle and download_bundles.                     *)
(***************************************************************************)
\* the filter of download_bundle has run in the current call
Filtered ==
    \/ opc \in {"product", "file"}
    \/ opc = "returned" /\ bundle # NoBundle /\ bret.err # "item_numbers"

\* two strings are equal when the case of their letters is ignored
EqIgnoreCase(a, b) ==
    /\ Len(a) = Len(b)
    /\ \A k \in 1..Len(a) :
          \/ a[k] = b[k]
          \/ \E i \in 1..Len(Uppers) : {a[k], b[k]} = {Uppers[i], Lowers[i]}

\* the sum of the file sizes of the product at catalog position i
SizeAt(i) ==
    LET its == Items(bundle.products[i].downloads)
        f[k \in 0..Len(its)] == IF k = 0 THEN 0 ELSE f[k - 1] + its[k].file_size
    IN f[Len(its)]

PassesIndex(i) == resolved = <<>> \/ \E k \in 1..Len(resolved) : resolved[k] = i
PassesSize(i) == max_size = 0 \/ SizeAt(i) < max_size
PassesFormat(i) ==
    \/ formats = <<>>
    \/ \E d \in 1..Len(bundle.products[i].downloads) :
          \E k \in 1..Len(bundle.products[i].downloads[d].items) :
             \E g \in 1..Len(formats) :
                EqIgnoreCase(bundle.products[i].downloads[d].items[k].format,
                             formats[g])

C13_WithinLimitDownloaded ==
    (Filtered /\ max_size > 0) =>
        \A i \in 1..Len(bundle.products) :
            (PassesIndex(i) /\ PassesFormat(i) /\ SizeAt(i) <= max_size)
                => \E k \in 1..Len(products) : products[k] = i

\* the file j of the product at catalog position i
FileAt(i, j) == Items(bundle.products[i].downloads)[j]
FilesAt(i) == 1..Len(Items(bundle.products[i].downloads))

FilePasses(i, j) ==
    \/ formats = <<>>
    \/ \E g \in 1..Len(formats) : EqIgnoreCase(FileAt(i, j).format, formats[g])

Handed(i, j) == \E k \in 1..Len(dlog) : dlog[k].pos = i /\ dlog[k].idx = j
Skipped(i, j) == \E k \in 1..Len(skips) : skips[k] = <<i, j>>

\* the file loops of the current call are past file j of the n-th selected
\* product
Passed(n, j) ==
    \/ n < prodIdx
    \/ n = prodIdx /\ opc = "file" /\ j < fileIdx

C15_OnlyNamedProducts ==
    (Filtered /\ item_numbers.some) =>
        /\ \A k \in 1..Len(products) : Contains(resolved, products[k])
        /\ \A k \in 1..Len(dlog) : Contains(resolved, dlog[k].pos)

NonePasses ==
    \A i \in 1..Len(bundle.products) :
        ~(PassesIndex(i) /\ PassesSize(i) /\ PassesFormat(i))

\* C16: when no product passes the selection filter, download_bundle
\* returns success straight after the filter: no directory was created and
\* no file was handed to download_file.
C16_NothingToDownload ==
    (Filtered /\ NonePasses) =>
        /\ opc = "returned"
        /\ bret.ok
        /\ dirs = dirs0
        /\ dlog = <<>>
        /\ inflight = {}

C16_Witness ==
    /\ opc = "returned"
    /\ Len(bundle.products) = 2
    /\ SizeAt(1) = 1
    /\ SizeAt(2) = 2
    /\ max_size = 1
    /\ products = <<>>
    /\ bret.ok
    /\ dirs0 = {}
    /\ dirs = {}

\* a token is well formed when it is a number, or a dash with a number or
\* nothing on each side
IsNumber(t) == t # <<>> /\ \A k \in 1..Len(t) : IsDigit(t[k])
WellFormed(t) ==
    \/ IsNumber(t)
    \/ \E i \in 1..Len(t) :
          /\ t[i] = "-"
          /\ i = 1 \/ IsNumber(SubSeq(t, 1, i - 1))
          /\ i = Len(t) \/ IsNumber(SubSeq(t, i + 1, Len(t)))
HasMalformedToken ==
    /\ item_numbers.some
    /\ \E k \in 1..Len(Split(item_numbers.v, ",")) :
          ~WellFormed(Split(item_numbers.v, ",")[k])

\* C17: when the item-numbers expression holds a malformed token, the call
\* of download_bundle that has read the bundle returns an error naming the
\* expression; no directory was created and no download was started.
C17_MalformedTokenNoDownload ==
    (HasMalformedToken /\ bundle # NoBundle /\ opc # "read") =>
        /\ opc = "returned"
        /\ ~bret.ok
        /\ bret.err = "item_numbers"
        /\ dirs = dirs0
        /\ dlog = <<>>
        /\ inflight = {}

C17_Witness ==
    /\ opc = "returned"
    /\ item_numbers = Some(<<"1", ",", "a">>)
    /\ Len(bundle.products) = 2
    /\ ~bret.ok
    /\ bret.cause.msg = <<"'", "a", "'">>
    /\ dirs = dirs0

\* C18: at most one download is in flight, it is the last one started, a
\* download starts only when none is in flight, and the downloads of a
\* call are started in catalog order: ascending product position, and
\* ascending file position within a product.
C18_SequentialInOrder ==
    /\ [](/\ Cardinality(inflight) <= 1
          /\ \A c \in inflight : dlog # <<>> /\ c = dlog[Len(dlog)]
          /\ \A k \in 1..(Len(dlog) - 1) :
                \/ dlog[k].pos < dlog[k + 1].pos
                \/ dlog[k].pos = dlog[k + 1].pos
                      /\ dlog[k].idx < dlog[k + 1].idx)
    /\ [][Len(dlog') > Len(dlog)
            => (inflight = {} /\ Len(dlog') = Len(dlog) + 1)]_vars

C18_Witness ==
    /\ opc = "file"
    /\ Len(dlog) = 3
    /\ dlog[1].pos = 1
    /\ dlog[2].pos = 2
    /\ dlog[2].idx = 1
    /\ dlog[3].pos = 2
    /\ dlog[3].idx = 3
    /\ inflight = {dlog[3]}
    /\ Cardinality(written) = 2

\* the file j of position i comes after the failure f in catalog order
After(i, j, f) == i > f.pos \/ (i = f.pos /\ j > f.idx)

\* C19: the first per-file failure (no filename in the url, or an error of
\* download_file) ends download_bundle, which returns that error; no file
\* or product after it is attempted; directories are never removed, and
\* files written in the call stay.
C19_FirstFailureAborts ==
    /\ [](failed # <<>> =>
            /\ Len(failed) = 1
            /\ opc = "returned"
            /\ ~bret.ok
            /\ bret.err = IF failed[1].kind = "filename" THEN "filename"
                          ELSE "download_file"
            /\ bret.err = "download_file" => bret.cause.kind = failed[1].kind
            /\ inflight = {}
            /\ \A k \in 1..Len(dlog) :
                  ~After(dlog[k].pos, dlog[k].idx, failed[1])
            /\ \A k \in 1..Len(skips) :
                  ~After(skips[k][1], skips[k][2], failed[1]))
    /\ [][/\ dirs \subseteq dirs'
           /\ opc # "returned" => written \subseteq written']_vars

C19_Witness ==
    /\ opc = "returned"
    /\ Len(products) = 2
    /\ failed # <<>>
    /\ failed[1].pos = 1
    /\ failed[1].idx = 2
    /\ failed[1].kind = "filename"
    /\ Len(dlog) = 1
    /\ Cardinality(written) = 1
    /\ Cardinality(FilesAt(1)) = 3

ContentError(f) == f.kind \in {"filename", "Generic"}

\* C20 as stated: in batch mode, after a file failed with a content error
\* (no content length, no filename in the url) the other files of the
\* selected products that pass the format check are still attempted.
C20_SiblingsStillAttempted ==
    (/\ cmd = "bulk-download"
     /\ opc = "returned"
     /\ failed # <<>>
     /\ ContentError(failed[1])) =>
        \A n \in 1..Len(products) : \A j \in FilesAt(products[n]) :
            (FilePasses(products[n], j)
             /\ <<products[n], j>> # <<failed[1].pos, failed[1].idx>>)
                => Handed(products[n], j)

\* C20 amended: in batch mode a content error on one file ends that bundle:
\* no file or product after it is attempted, and download_bundles pushes
\* the error on err_vec under the name of the bundle's line.
C20_ContentErrorEndsBundle ==
    /\ []((cmd = "bulk-download" /\ failed # <<>> /\ ContentError(failed[1]))
            => /\ opc = "returned"
               /\ ~bret.ok
               /\ \A n \in 1..Len(products) : \A j \in FilesAt(products[n]) :
                     After(products[n], j, failed[1])
                        => (~Handed(products[n], j) /\ ~Skipped(products[n], j)))
    /\ [][(cmd = "bulk-download" /\ opc = "returned" /\ failed # <<>>
            /\ ContentError(failed[1]))
            => /\ Len(err_vec') = Len(err_vec) + 1
               /\ err_vec'[Len(err_vec')].name = Split(lines[lineIdx], ",")[2]
               /\ err_vec'[Len(err_vec')].line = lineIdx
               /\ err_vec'[Len(err_vec')].err.err = bret.err]_vars

C20_Witness ==
    /\ cmd = "bulk-download"
    /\ opc = "returned"
    /\ Len(products) = 2
    /\ failed # <<>>
    /\ failed[1].kind = "Generic"
    /\ failed[1].pos = 1
    /\ failed[1].idx = 1
    /\ Len(dlog) = 1
    /\ Cardinality(FilesAt(1)) = 3

(***************************************************************************)
(* Properties of the batch loop, of the urls and paths handed to the       *)
(* downloader, and of the key lookup.                                      *)
(***************************************************************************)
\* the batch has stopped: download_bundles returned or the process died
BatchStopped == cmd = "bulk-download" /\ opc \in {"exit", "panicked"}

\* the lines of err_vec's entries are strictly increasing
InInputOrder(ev) ==
    \A a, b \in 1..Len(ev) : a < b => ev[a].line < ev[b].line

\* C21: in batch mode a failure download_bundle returned for one bundle
\* never stops the batch: when the batch has stopped after a failure was
\* captured, every line of the list has been attempted and each captured
\* failure is reported once, in input order; nothing is reported before
\* the last bundle has been attempted.
C21_FailureNeverStopsBatch ==
    /\ (cmd = "bulk-download" /\ opc # "exit") => report = <<>>
    /\ (BatchStopped /\ err_vec # <<>>) =>
          /\ lineIdx > Len(lines)
          /\ InInputOrder(err_vec)
          /\ report = ErrNames(err_vec)

\* an error was raised while the orchestrator ran: by the call that has
\* just returned, or by an earlier call of the batch
ErrorRaised == ~bret.ok \/ failed # <<>> \/ err_vec # <<>>

C23_TorrentsOnlyUrl ==
    \A k \in 1..Len(dlog) :
        LET u == FileAt(dlog[k].pos, dlog[k].idx).url
            used == IF torrents_only THEN u.bittorrent ELSE u.web
            other == IF torrents_only THEN u.web ELSE u.bittorrent
        IN /\ dlog[k].url = used
           /\ dlog[k].url # other
           /\ dlog[k].path[Len(dlog[k].path)]
                 = extract_filename_from_url(used).v
           /\ dlog[k].path[Len(dlog[k].path)]
                 # extract_filename_from_url(other).v

C23_Witness ==
    /\ torrents_only
    /\ opc = "returned"
    /\ bret.ok
    /\ Len(dlog) = 2
    /\ dlog[1].url = Torrent(<<"a">>)
    /\ dlog[1].path[Len(dlog[1].path)] = <<"a", "t">>

\* the directory and the filename download_bundle derives for a file
DestinationOf(i, j) ==
    BundleDir
    \o <<replace_invalid_chars_in_filename(bundle.products[i].human_name)>>
    \o <<extract_filename_from_url(
            download_url_of(FileAt(i, j).url, torrents_only)).v>>

\* C24: every file handed to download_file is written to <bundle directory,
\* or the current directory with --cur-dir>/<sanitized product name>/
\* <filename of the url>, and two different files handed to download_file
\* in one run never have the same destination path.
C24_OnePathPerItem ==
    /\ \A k \in 1..Len(dlog) :
          dlog[k].path = DestinationOf(dlog[k].pos, dlog[k].idx)
    /\ \A k, l \in 1..Len(dlog) :
          k # l => dlog[k].path # dlog[l].path

\* the fields of the n-th line of the bundle list
FieldsOf(n) == Split(lines[n], ",")

\* C29: download_bundles handles every line of the list without crashing:
\* the key of the bundle is the first comma-separated field of the line,
\* the name an error is reported under is the second field when the line
\* has one and the key otherwise, and the batch ends only after the last
\* line, whether or not a line has a comma.
C29_EveryLineHandled ==
    cmd = "bulk-download" =>
        /\ opc # "panicked"
        /\ opc \in {"called", "read", "product", "file", "returned"}
              => bundle_key = FieldsOf(lineIdx)[1]
        /\ \A k \in 1..Len(err_vec) :
              err_vec[k].name =
                 IF Len(FieldsOf(err_vec[k].line)) >= 2
                 THEN FieldsOf(err_vec[k].line)[2]
                 ELSE FieldsOf(err_vec[k].line)[1]
        /\ (opc = "exit" /\ mret.ok) => lineIdx > Len(lines)

\* the keys of the account that start with bundle_key, case ignored
Matching ==
    {i \in 1..Len(AllKeys) :
        /\ Len(bundle_key) <= Len(AllKeys[i])
        /\ EqIgnoreCase(SubSeq(AllKeys[i], 1, Len(bundle_key)), bundle_key)}

\* download_bundle has the list of keys and is past find_key
PastFindKey ==
    /\ opc \in {"read", "product", "file", "returned"}
    /\ bret.err \notin {"get_config", "list_bundle_keys"}

NothingDone == bundle = NoBundle /\ dirs = dirs0 /\ dlog = <<>>

\* C30 as stated: when bundle_key matches no key of the account, or more
\* than one, download_bundle returns success without reading a bundle,
\* creating a directory or downloading a file; a download proceeds only
\* when exactly one key matches.
C30_OnlyUniqueMatchProceeds ==
    (PastFindKey /\ Cardinality(Matching) # 1) =>
        /\ opc = "returned"
        /\ bret.ok
        /\ NothingDone

\* C30 amended: a bundle_key that has not the full key length proceeds
\* only when exactly one key matches it, and otherwise download_bundle
\* returns success with nothing read, created or downloaded, while with
\* exactly one match read_bundle is called; a bundle_key
\* of the full key length is not searched for: read_bundle is called with
\* it as typed, and when no bundle has that key download_bundle returns
\* the error of read_bundle with nothing created or downloaded.
C30_PartialKeyNeedsUniqueMatch ==
    PastFindKey =>
        IF is_full_key(bundle_key)
        THEN /\ bundle # NoBundle => HasBundle(bundle_key)
             /\ ~HasBundle(bundle_key) =>
                   /\ opc = "returned"
                   /\ bret.err = "read_bundle"
                   /\ NothingDone
        ELSE IF Cardinality(Matching) # 1
             THEN /\ opc = "returned"
                  /\ bret.ok
                  /\ NothingDone
             ELSE bundle # NoBundle \/ bret.err = "read_bundle"

C30_Witness ==
    /\ opc = "returned"
    /\ bundle_key = <<"a">>
    /\ Cardinality(Matching) = 2
    /\ bret.ok
    /\ dirs0 # {}

(***************************************************************************)
(* The helpers of util.rs and key_match.rs, called on their own.           *)
(***************************************************************************)
MaxName == 3
MaxUrl == 5
MaxKeys == 2
MaxTarget == 2

StringsUpTo(S, n) == UNION {[1..k -> S] : k \in 0..n}

\* names: the invalid characters, white space and a letter
NameChars == InvalidChars \cup {"a", " ", "\t"}
ProductNames == StringsUpTo(NameChars, MaxName)

\* urls: with and without a scheme, with one, two or no '/' after it
UrlPrefixes == { <<>>, <<"h", ":">>, <<"h", ":", "/">>,
                 <<"h", ":", "/", "/">> }
UrlChars == {"d", "a", "/", "?", "#"}
UrlTexts == {p \o b : p \in UrlPrefixes, b \in StringsUpTo(UrlChars, MaxUrl)}

\* key lists, and targets: partial keys, full keys, a key one too long
KeyLists == StringsUpTo({Key1, Key2, Key3}, MaxKeys)
TargetChars == {"a", "A", "b", "B", "1", "x"}
Targets ==
    StringsUpTo(TargetChars, MaxTarget)
    \cup {Key3, KeyAbsent, <<"B">> \o Rep("3", FULL_KEY_SIZE - 1),
          Key1 \o <<"1">>}

InitUtil ==
    /\ ufn \in {"replace_invalid_chars_in_filename",
                "extract_filename_from_url", "get_matches"}
    /\ uarg \in CASE ufn = "replace_invalid_chars_in_filename" -> ProductNames
                  [] ufn = "extract_filename_from_url" -> UrlTexts
                  [] OTHER -> Targets
    /\ ukeys \in IF ufn = "get_matches" THEN KeyLists ELSE {<<>>}
    /\ uout = <<>>
    /\ upc = "input"
    /\ DownloadOff
    /\ RangeOff
    /\ BundleOff

\* util.rs:23-41
Sanitize ==
    /\ upc = "input"
    /\ ufn = "replace_invalid_chars_in_filename"
    /\ uout' = replace_invalid_chars_in_filename(uarg)
    /\ upc' = "done"
    /\ UNCHANGED <<ufn, uarg, ukeys>>
    /\ UNCHANGED <<dlVars, rrVars, obVars>>

\* util.rs:43-55
ExtractFilename ==
    /\ upc = "input"
    /\ ufn = "extract_filename_from_url"
    /\ uout' = extract_filename_from_url(uarg)
    /\ upc' = "done"
    /\ UNCHANGED <<ufn, uarg, ukeys>>
    /\ UNCHANGED <<dlVars, rrVars, obVars>>

\* key_match.rs:8-15 and 26-38: KeyMatch::new(keys, target).get_matches()
GetMatches ==
    /\ upc = "input"
    /\ ufn = "get_matches"
    /\ uout' = get_matches(ukeys, uarg)
    /\ upc' = "done"
    /\ UNCHANGED <<ufn, uarg, ukeys>>
    /\ UNCHANGED <<dlVars, rrVars, obVars>>

NextUtil ==
    \/ Sanitize
    \/ ExtractFilename
    \/ GetMatches

SpecUtil == InitUtil /\ [][NextUtil]_vars

(***************************************************************************)
(* Properties of the helpers.                                              *)
(***************************************************************************)
\* the characters C25 lists
Forbidden == {"/", "\\", "?", "%", "*", ":", "|", "\"", "<", ">", ";", "=",
              "\n"}
Blank == {" ", "\t", "\n", "\r"}
AllIn(s, S) == \A i \in 1..Len(s) : s[i] \in S

\* C25: replace_invalid_chars_in_filename replaces each of / \ ? % * : |
\* " < > ; = and newline by one space and trims white space at both ends:
\* the result holds none of those characters, neither starts nor ends with
\* white space, is the input with the replacements made and only white
\* space cut off at its ends, and is returned unchanged when the function
\* is applied to it.
C25_SanitizerReplacesAndTrims ==
    (upc = "done" /\ ufn = "replace_invalid_chars_in_filename") =>
        LET replaced == [i \in 1..Len(uarg) |->
                            IF uarg[i] \in Forbidden THEN " " ELSE uarg[i]]
        IN
        /\ \A i \in 1..Len(uout) : uout[i] \notin Forbidden
        /\ uout # <<>> => (uout[1] \notin Blank /\ uout[Len(uout)] \notin Blank)
        /\ \E a \in 0..Len(replaced) :
              /\ a + Len(uout) <= Len(replaced)
              /\ uout = SubSeq(replaced, a + 1, a + Len(uout))
              /\ AllIn(SubSeq(replaced, 1, a), Blank)
              /\ AllIn(SubSeq(replaced, a + Len(uout) + 1, Len(replaced)),
                       Blank)
        /\ replace_invalid_chars_in_filename(uout) = uout

C25_Witness ==
    /\ upc = "done"
    /\ ufn = "replace_invalid_chars_in_filename"
    /\ uarg = <<":", "a", "\n">>
    /\ uout = <<"a">>

\* the text of a url before its query string and fragment, the text after
\* the scheme and the '/' characters that follow it, and the host
NoQuery(u) == UpTo(u, {"?", "#"})
AfterScheme(u) == SkipSlashes(SubSeq(NoQuery(u), 3, Len(NoQuery(u))))
HostOf(u) == UpTo(AfterScheme(u), {"/"})

\* a url parses when it starts with the scheme and names a host
Parses(u) ==
    /\ Len(u) >= 2
    /\ SubSeq(u, 1, 2) = <<"h", ":">>
    /\ HostOf(u) # <<>>

\* the text after the last '/' of the path
LastSegment(u) ==
    LET path == SubSeq(AfterScheme(u), Len(HostOf(u)) + 1,
                       Len(AfterScheme(u)))
        slashes == {i \in 1..Len(path) : path[i] = "/"}
        last == IF slashes = {} THEN 0
                ELSE CHOOSE i \in slashes : \A j \in slashes : j <= i
    IN SubSeq(path, last + 1, Len(path))

\* C26: extract_filename_from_url returns the last path segment of the url
\* as it stands, without query string or fragment, when the url parses and
\* that segment is not empty; it returns None when the url is malformed or
\* its last path segment is empty.
C26_FilenameIsLastSegment ==
    (upc = "done" /\ ufn = "extract_filename_from_url") =>
        IF Parses(uarg) /\ LastSegment(uarg) # <<>>
        THEN uout.some /\ uout.v = LastSegment(uarg)
        ELSE ~uout.some

C26_Witness ==
    /\ upc = "done"
    /\ ufn = "extract_filename_from_url"
    /\ uarg = <<"h", ":", "/", "/", "d", "/", "a", "?", "d">>
    /\ uout.some
    /\ uout.v = <<"a">>

\* the positions of the keys that start with the target, case ignored
StartingWith(keys, target) ==
    {i \in 1..Len(keys) :
        /\ Len(target) <= Len(keys[i])
        /\ EqIgnoreCase(SubSeq(keys[i], 1, Len(target)), target)}

\* C27: for a target whose length is not the full key length get_matches
\* returns, in the order of the key list, exactly the keys that start with
\* the target, case ignored; for a target of the full key length it
\* returns the list that holds the target alone, whatever the key list.
C27_GetMatches ==
    (upc = "done" /\ ufn = "get_matches") =>
        IF Len(uarg) = 16
        THEN uout = <<uarg>>
        ELSE LET idx == StartingWith(ukeys, uarg) IN
             /\ Len(uout) = Cardinality(idx)
             /\ \A i \in idx :
                   uout[Cardinality({j \in idx : j <= i})] = ukeys[i]

C27_Witness ==
    /\ upc = "done"
    /\ ufn = "get_matches"
    /\ ukeys = <<Key2, Key1>>
    /\ uarg = <<"A">>
    /\ uout = <<Key2, Key1>>

(***************************************************************************)
(* The downloader and a response that ends early.                          *)
(***************************************************************************)
\* C28: whenever download_file returns success the destination file is at
\* least as long as the remote total_size; a response stream that ends
\* before the remaining bytes were received and written is not reported as
\* a successful download.
C28_SuccessMeansComplete ==
    (pc = "returned" /\ ret.kind = "Ok") =>
        /\ fileExists
        /\ Len(file) >= total_size

====
